---- MODULE Spec2Model ----
(***************************************************************************)
(* TenderGuardian backend: the sealed-bid ledger (collection bids), the    *)
(* governance-update ledger (collection tender_updates) and the audit-log  *)
(* read path, as served by the asyncio handlers of backend/server.py with  *)
(* the primitives of backend/encryption_utils.py.                          *)
(*                                                                         *)
(* Scaling.  Bytes are 2 bits wide (0..3) instead of 8, the cipher block   *)
(* is 2 bytes instead of 16, the key is 2 bytes instead of 32, base64      *)
(* packs two bytes per symbol, a timestamp keeps two digits of seconds and *)
(* one digit of sub-second fraction, and to_list's limit is 2 instead of   *)
(* 1000.  Digests are collision-free constructors: a digest records the    *)
(* algorithm and the exact bytes it was computed over.                     *)
(***************************************************************************)
EXTENDS Integers, Sequences, FiniteSets, Bags, TLC

VARIABLES bids, tender_updates, clock, pc, local, history, budget

vars == <<bids, tender_updates, clock, pc, local, history, budget>>

(***************************************************************************)
(* Bounds of the model.                                                    *)
(***************************************************************************)
\* Spec: requests of any kind accepted over one run
MaxOps == 3
\* SpecSeal: seal-bid requests
SealRuns == 2
\* SpecAudit: seal-bid and audit-log requests
AuditSeals == 3
AuditReads == 1
\* SpecRead: seal-bid and audit-log requests
ReadSeals == 2
ReadReads == 2
\* SpecUpdate: tender-update requests
UpdateRuns == 2
\* last reading of the wall clock
MaxClock == 1

\* concurrent execution contexts (one per in-flight request)
Procs == {"p1", "p2"}

(***************************************************************************)
(* Inputs and entropy.                                                     *)
(***************************************************************************)
\* uploaded file contents
Files == {<<1>>, <<1, 2>>}

\* strings are sequences of characters
TenderIds == {<<"T">>, <<"T", ":", "x">>}
UpdateContents == {<<"x">>, <<"x", ":", "x">>}
UpdatedBys == {<<"a">>, <<"o">>}

\* values get_random_bytes(16) can return (any block; two suffice here)
IVs == {<<0, 0>>, <<0, 1>>}

\* values str(uuid.uuid4()) can return
Uuids == {"u1", "u2"}

(***************************************************************************)
(* encryption_utils.py                                                     *)
(***************************************************************************)
BlockSize == 2
KeyLen == 2

\* os.environ.get('ENCRYPTION_KEY', <dev fallback>), as bytes
EncryptionSecret == <<1, 2, 3>>

\* key.encode('utf-8')[:32].ljust(32, b'0')
get_encryption_key ==
    [i \in 1 .. KeyLen |->
        IF i <= Len(EncryptionSecret) THEN EncryptionSecret[i] ELSE 0]

\* bitwise exclusive or of two 2-bit bytes
Xor(a, b) == 2 * (((a \div 2) + (b \div 2)) % 2) + ((a + b) % 2)

XorBlock(x, y) == [i \in 1 .. BlockSize |-> Xor(x[i], y[i])]

\* the block cipher under key k: a permutation of the blocks
EncryptBlock(k, b) == <<(b[2] + k[1]) % 4, (b[1] + b[2] + k[2]) % 4>>

\* Crypto.Util.Padding.pad (PKCS#7): n bytes of value n, 1 <= n <= BlockSize
pad(content) ==
    LET n == BlockSize - (Len(content) % BlockSize)
    IN  content \o [i \in 1 .. n |-> n]

\* AES.new(key, AES.MODE_CBC, iv).encrypt: each block is xored with the
\* previous ciphertext block (the iv for the first) and then enciphered
RECURSIVE CbcEncrypt(_, _, _)
CbcEncrypt(k, prev, padded) ==
    IF padded = <<>> THEN <<>>
    ELSE LET c == EncryptBlock(k, XorBlock(SubSeq(padded, 1, BlockSize), prev))
         IN  c \o CbcEncrypt(k, c, SubSeq(padded, BlockSize + 1, Len(padded)))

\* the same cipher with no chaining and no iv (ECB)
EcbEncrypt(k, prev, padded) ==
    IF padded = <<>> THEN <<>>
    ELSE [i \in 1 .. Len(padded) |->
            EncryptBlock(k, SubSeq(padded, i - ((i - 1) % BlockSize),
                                   i - ((i - 1) % BlockSize) + BlockSize - 1))
                [((i - 1) % BlockSize) + 1]]

CipherEncrypt(k, iv, padded) == CbcEncrypt(k, iv, padded)

\* encrypt_file_content, for the iv that get_random_bytes returned
encrypt_file_content(file_content, iv) ==
    [encrypted_content |-> CipherEncrypt(get_encryption_key, iv, pad(file_content)),
     iv |-> iv]

\* hashlib.sha3_512(content).hexdigest()
generate_sha3_512_hash(content) == [alg |-> "sha3_512", of |-> content]

\* hashlib.sha256(content.encode('utf-8')).hexdigest()
generate_sha256_hash(content) == [alg |-> "sha256", of |-> content]

(***************************************************************************)
(* Conversions used by server.py                                           *)
(***************************************************************************)
B64Pad == 16

\* base64.b64encode(b).decode('utf-8'): two bytes per symbol, a trailing
\* single byte is zero-filled and followed by the pad symbol
RECURSIVE b64encode(_)
b64encode(b) ==
    IF b = <<>> THEN <<>>
    ELSE IF Len(b) = 1 THEN <<4 * b[1], B64Pad>>
    ELSE <<4 * b[1] + b[2]>> \o b64encode(SubSeq(b, 3, Len(b)))

\* the wall-clock readings: (second, sub-second fraction)
ClockReading(t) == [sec |-> t \div 2, frac |-> t % 2]

\* datetime.now(timezone.utc).isoformat() as character codes: zero-padded
\* seconds, the fraction only when it is not zero, then "+00:00"
isoformat(t) ==
    <<48 + (t.sec \div 10), 48 + (t.sec % 10)>>
    \o (IF t.frac = 0 THEN <<>> ELSE <<46, 48 + t.frac>>)
    \o <<43, 48, 48, 58, 48, 48>>

\* f"{update.tenderId}:{update.updateContent}:{update.updatedBy}"
UpdateContentString(update) ==
    update.tenderId \o <<":">> \o update.updateContent \o <<":">> \o update.updatedBy

(***************************************************************************)
(* The document store (MongoDB through motor)                              *)
(***************************************************************************)
\* a write keyed by tenderId, replacing the stored document of that tender
InsertOneUpsert(coll, doc) ==
    IF \E i \in 1 .. Len(coll) : coll[i].tenderId = doc.tenderId
    THEN [i \in 1 .. Len(coll) |->
            IF coll[i].tenderId = doc.tenderId
            THEN ("_id" :> coll[i]["_id"]) @@ doc ELSE coll[i]]
    ELSE Append(coll, ("_id" :> Len(coll) + 1) @@ doc)

\* insert_one: the driver gives the document its _id and the collection
\* gains the document; nothing already stored is touched
InsertOne(coll, doc) == Append(coll, ("_id" :> Len(coll) + 1) @@ doc)

\* the projection document of get_audit_log's find: _id excluded, five
\* fields included
AuditProjection == {"tenderId", "bidHash", "timestamp", "bidderId", "status"}

Project(doc, fields) == [f \in fields \cap DOMAIN doc |-> doc[f]]

\* binary comparison of two strings, as the store orders string values
RECURSIVE StrLess(_, _)
StrLess(a, b) ==
    IF b = <<>> THEN FALSE
    ELSE IF a = <<>> THEN TRUE
    ELSE IF a[1] # b[1] THEN a[1] < b[1]
    ELSE StrLess(Tail(a), Tail(b))

\* oldest first
SortAscending == 0 + 1

\* .sort("timestamp", -1)
SortDirection == -1

\* cursor.sort(key, dir): every order of the documents that agrees with the
\* key; the store leaves the order of documents with equal keys open, and it
\* may differ from one execution of the query to the next
SortOrders(docs, key, dir) ==
    {o \in [1 .. Len(docs) -> 1 .. Len(docs)] :
        /\ \A i, j \in 1 .. Len(docs) : i # j => o[i] # o[j]
        /\ \A i, j \in 1 .. Len(docs) :
              i < j => IF dir = -1
                       THEN ~ StrLess(docs[o[i]][key], docs[o[j]][key])
                       ELSE ~ StrLess(docs[o[j]][key], docs[o[i]][key])}

\* .to_list(1000), scaled
AuditLimit == 2

\* the last n documents of the cursor
ToListTail(docs, n) ==
    IF Len(docs) <= n THEN docs ELSE SubSeq(docs, Len(docs) - n + 1, Len(docs))

\* cursor.to_list(n): at most the first n documents of the cursor
ToList(docs, n) == IF Len(docs) <= n THEN docs ELSE SubSeq(docs, 1, n)

\* db.bids.find({}, projection).sort("timestamp", -1).to_list(1000): the
\* results the query can return on collection coll
FindAuditLog(coll) ==
    {ToList([i \in 1 .. Len(coll) |-> Project(coll[o[i]], AuditProjection)],
            AuditLimit) :
        o \in SortOrders(coll, "timestamp", SortDirection)}

(***************************************************************************)
(* The pydantic models of server.py                                        *)
(***************************************************************************)
None == <<-1>>

\* class SealedBid
SealedBid ==
    [required |-> {"tenderId", "bidHash", "timestamp", "bidderId"},
     defaults |-> [status |-> <<"S", "E", "A", "L", "E", "D">>,
                   encryptedFileBase64 |-> None, iv |-> None]]

\* class AuditLogEntry
AuditLogEntry ==
    [required |-> {"tenderId", "bidHash", "timestamp", "bidderId", "status"},
     defaults |-> <<>>]

\* response_model=List[SealedBid]
AuditResponseAsSealedBid == SealedBid

\* response_model=List[AuditLogEntry]
AuditResponseModel == AuditLogEntry

ModelFields(model) == model.required \cup DOMAIN model.defaults

\* validation of one document against a model with extra="ignore"
Valid(model, doc) == model.required \subseteq DOMAIN doc

Serialize(model, doc) ==
    [f \in ModelFields(model) |->
        IF f \in DOMAIN doc THEN doc[f] ELSE model.defaults[f]]

(***************************************************************************)
(* State                                                                   *)
(*   bids, tender_updates  the two collections, in insertion order         *)
(*   clock                 the wall clock datetime.now reads               *)
(*   pc[p]                 where execution context p stands in its handler *)
(*   local[p]              the handler's local variables                   *)
(*   history               bag of the seal_bid requests answered with      *)
(*                         success (bookkeeping, not program state)        *)
(*   budget                requests still to be accepted, by kind and in   *)
(*                         total (the bound of a run)                      *)
(***************************************************************************)
NoLocal == [op |-> "none"]

\* the service starts on empty collections, no request in flight
Start(seals, updates, audits, total) ==
    /\ bids = <<>>
    /\ tender_updates = <<>>
    /\ clock = 0
    /\ pc = [p \in Procs |-> "idle"]
    /\ local = [p \in Procs |-> NoLocal]
    /\ history = EmptyBag
    /\ budget = [seal |-> seals, update |-> updates, audit |-> audits,
                 total |-> total]

Init == Start(MaxOps, MaxOps, MaxOps, MaxOps)

\* datetime.now(timezone.utc).isoformat()
Now == isoformat(ClockReading(clock))

Tick ==
    /\ clock < MaxClock
    /\ clock' = clock + 1
    /\ UNCHANGED <<bids, tender_updates, pc, local, history, budget>>

\* p's handler is over
Finish(p) ==
    /\ pc' = [pc EXCEPT ![p] = "idle"]
    /\ local' = [local EXCEPT ![p] = NoLocal]

(***************************************************************************)
(* POST /api/seal-bid                                                      *)
(***************************************************************************)
\* the request arrives and the handler suspends in await file.read()
SealBidStart(p, file, tender_id) ==
    /\ pc[p] = "idle"
    /\ budget.seal > 0 /\ budget.total > 0
    /\ budget' = [budget EXCEPT !.seal = @ - 1, !.total = @ - 1]
    /\ pc' = [pc EXCEPT ![p] = "seal_read"]
    /\ local' = [local EXCEPT ![p] =
                    [op |-> "seal_bid", file_content |-> file, tender_id |-> tender_id]]
    /\ UNCHANGED <<bids, tender_updates, clock, history>>

\* the digest of the uploaded bytes
BidHashOfPlaintext(file_content, encrypted_content) ==
    generate_sha3_512_hash(file_content)

\* bid_hash = generate_sha3_512_hash(encrypted_content)
BidHash(file_content, encrypted_content) ==
    generate_sha3_512_hash(encrypted_content)

\* the sealed_bid dict the handler assembles
SealedBidDoc(tender_id, file_content, iv, bidder_id, timestamp) ==
    LET enc == encrypt_file_content(file_content, iv)
    IN  [tenderId |-> tender_id,
         bidHash |-> BidHash(file_content, enc.encrypted_content),
         timestamp |-> timestamp,
         bidderId |-> bidder_id,
         status |-> <<"S", "E", "A", "L", "E", "D">>,
         encryptedFileBase64 |-> b64encode(enc.encrypted_content),
         iv |-> b64encode(enc.iv)]

\* file.read() returned: encrypt, hash, draw the bidder id, read the clock,
\* assemble the document and suspend in await db.bids.insert_one
SealBidBuild(p, iv, bidder_id) ==
    /\ pc[p] = "seal_read"
    /\ local' = [local EXCEPT ![p] =
                   [op |-> "seal_bid",
                    file_content |-> local[p].file_content,
                    tender_id |-> local[p].tender_id,
                    sealed_bid |-> SealedBidDoc(local[p].tender_id,
                                       local[p].file_content, iv, bidder_id, Now)]]
    /\ pc' = [pc EXCEPT ![p] = "seal_insert"]
    /\ UNCHANGED <<bids, tender_updates, clock, history, budget>>

\* the store applies the insert; the handler has not resumed yet
SealBidInsert(p) ==
    /\ pc[p] = "seal_insert"
    /\ bids' = InsertOne(bids, local[p].sealed_bid)
    /\ pc' = [pc EXCEPT ![p] = "seal_return"]
    /\ UNCHANGED <<tender_updates, clock, local, history, budget>>

\* an answer whose bidderId is not the stored one
SealBidResponseRedrawn(sealed_bid) ==
    [success |-> TRUE, bidHash |-> sealed_bid.bidHash, bidderId |-> "u1"]

\* SealBidResponse(success=True, bidHash=bid_hash, message=..., bidderId=bidder_id)
SealBidResponse(sealed_bid) ==
    [success |-> TRUE, bidHash |-> sealed_bid.bidHash, bidderId |-> sealed_bid.bidderId]

\* what a seal_bid request answered with success leaves in history
Sealed(p) ==
    [status |-> 200, file |-> local[p].file_content, tender_id |-> local[p].tender_id,
     body |-> SealBidResponse(local[p].sealed_bid),
     timestamp |-> local[p].sealed_bid.timestamp, iv |-> local[p].sealed_bid.iv]

SealBidReturn(p) ==
    /\ pc[p] = "seal_return"
    /\ history' = history (+) SetToBag({Sealed(p)})
    /\ Finish(p)
    /\ UNCHANGED <<bids, tender_updates, clock, budget>>

\* a failing seal that leaves a half-assembled document behind
SealBidFailPartial(p) ==
    /\ pc[p] \in {"seal_read", "seal_insert"}
    /\ bids' = InsertOne(bids, [tenderId |-> local[p].tender_id])
    /\ Finish(p)
    /\ UNCHANGED <<tender_updates, clock, history, budget>>

\* except Exception: raise HTTPException(500): file.read(), the cipher, the
\* digest (at seal_read) or insert_one (at seal_insert) raised
SealBidFail(p) ==
    /\ pc[p] \in {"seal_read", "seal_insert"}
    /\ Finish(p)
    /\ UNCHANGED <<bids, tender_updates, clock, history, budget>>

\* the request's task is cancelled while it awaits file.read() or an
\* insert_one the store has not applied: nothing was written
SealBidCancel(p) ==
    /\ pc[p] \in {"seal_read", "seal_insert"}
    /\ Finish(p)
    /\ UNCHANGED <<bids, tender_updates, clock, history, budget>>

\* the task is cancelled after the store applied the insert and before the
\* handler resumed: the document stays and no response is sent
SealBidCancelLate(p) ==
    /\ pc[p] = "seal_return"
    /\ Finish(p)
    /\ UNCHANGED <<bids, tender_updates, clock, history, budget>>

(***************************************************************************)
(* POST /api/tender-update                                                 *)
(***************************************************************************)
\* a digest that also covers the time of the call
UpdateHashStamped(update) ==
    generate_sha256_hash(UpdateContentString(update) \o <<":">> \o Now)

\* update_hash = generate_sha256_hash(update_content)
UpdateHash(update) == generate_sha256_hash(UpdateContentString(update))

\* the tender_update_doc dict the handler assembles
TenderUpdateDoc(update, timestamp) ==
    [tenderId |-> update.tenderId,
     updateContent |-> update.updateContent,
     updatedBy |-> update.updatedBy,
     updateHash |-> UpdateHash(update),
     timestamp |-> timestamp]

\* the request arrives: hash, read the clock, assemble the document and
\* suspend in await db.tender_updates.insert_one
TenderUpdateStart(p, update) ==
    /\ pc[p] = "idle"
    /\ budget.update > 0 /\ budget.total > 0
    /\ budget' = [budget EXCEPT !.update = @ - 1, !.total = @ - 1]
    /\ local' = [local EXCEPT ![p] =
                    [op |-> "tender_update", update |-> update,
                     tender_update_doc |-> TenderUpdateDoc(update, Now)]]
    /\ pc' = [pc EXCEPT ![p] = "update_insert"]
    /\ UNCHANGED <<bids, tender_updates, clock, history>>

TenderUpdateInsert(p) ==
    /\ pc[p] = "update_insert"
    /\ tender_updates' = InsertOne(tender_updates, local[p].tender_update_doc)
    /\ pc' = [pc EXCEPT ![p] = "update_return"]
    /\ UNCHANGED <<bids, clock, local, history, budget>>

\* TenderUpdateResponse(success=True, updateHash=update_hash, timestamp=timestamp)
TenderUpdateResponse(tender_update_doc) ==
    [success |-> TRUE, updateHash |-> tender_update_doc.updateHash,
     timestamp |-> tender_update_doc.timestamp]

TenderUpdateReturn(p) ==
    /\ pc[p] = "update_return"
    /\ Finish(p)
    /\ UNCHANGED <<bids, tender_updates, clock, history, budget>>

\* insert_one raised: HTTPException(500)
TenderUpdateFail(p) ==
    /\ pc[p] = "update_insert"
    /\ Finish(p)
    /\ UNCHANGED <<bids, tender_updates, clock, history, budget>>

(***************************************************************************)
(* GET /api/audit-log                                                      *)
(***************************************************************************)
\* the request arrives and the handler suspends in await ...to_list(1000)
GetAuditLogStart(p) ==
    /\ pc[p] = "idle"
    /\ budget.audit > 0 /\ budget.total > 0
    /\ budget' = [budget EXCEPT !.audit = @ - 1, !.total = @ - 1]
    /\ local' = [local EXCEPT ![p] = [op |-> "get_audit_log"]]
    /\ pc' = [pc EXCEPT ![p] = "audit_find"]
    /\ UNCHANGED <<bids, tender_updates, clock, history>>

\* the store runs the query; snap and seen are bookkeeping: how many
\* documents bids held and which seals had finished when it ran
GetAuditLogFind(p) ==
    /\ pc[p] = "audit_find"
    /\ \E result \in FindAuditLog(bids) :
          local' = [local EXCEPT ![p] =
                      [op |-> "get_audit_log", bids |-> result,
                       snap |-> Len(bids), seen |-> history]]
    /\ pc' = [pc EXCEPT ![p] = "audit_return"]
    /\ UNCHANGED <<bids, tender_updates, clock, history, budget>>

\* return bids, through response_model=List[AuditLogEntry]: a list that
\* does not validate is an internal server error
GetAuditLogResponse(result) ==
    IF \A i \in 1 .. Len(result) : Valid(AuditResponseModel, result[i])
    THEN [status |-> 200,
          body |-> [i \in 1 .. Len(result) |->
                      Serialize(AuditResponseModel, result[i])]]
    ELSE [status |-> 500]

GetAuditLogReturn(p) ==
    /\ pc[p] = "audit_return"
    /\ Finish(p)
    /\ UNCHANGED <<bids, tender_updates, clock, history, budget>>

\* the query raised: HTTPException(500)
GetAuditLogFail(p) ==
    /\ pc[p] = "audit_find"
    /\ Finish(p)
    /\ UNCHANGED <<bids, tender_updates, clock, history, budget>>

(***************************************************************************)
(* The system                                                              *)
(***************************************************************************)
Updates ==
    [tenderId : TenderIds, updateContent : UpdateContents, updatedBy : UpdatedBys]

SealBid(files, tender_ids, ivs, uuids) ==
    \/ \E p \in Procs, file \in files, tender_id \in tender_ids :
          SealBidStart(p, file, tender_id)
    \/ \E p \in Procs, iv \in ivs, bidder_id \in uuids : SealBidBuild(p, iv, bidder_id)
    \/ \E p \in Procs : SealBidInsert(p)
    \/ \E p \in Procs : SealBidReturn(p)
    \/ \E p \in Procs : SealBidFail(p)
    \/ \E p \in Procs : SealBidCancel(p)

SealBidLate == \E p \in Procs : SealBidCancelLate(p)

TenderUpdate(updates) ==
    \/ \E p \in Procs, update \in updates : TenderUpdateStart(p, update)
    \/ \E p \in Procs : TenderUpdateInsert(p)
    \/ \E p \in Procs : TenderUpdateReturn(p)
    \/ \E p \in Procs : TenderUpdateFail(p)

GetAuditLog ==
    \/ \E p \in Procs : GetAuditLogStart(p)
    \/ \E p \in Procs : GetAuditLogFind(p)
    \/ \E p \in Procs : GetAuditLogReturn(p)
    \/ \E p \in Procs : GetAuditLogFail(p)

\* the three routes side by side, on one file, one iv and one bidder id
Next ==
    \/ Tick
    \/ SealBid({<<1>>}, TenderIds, {<<0, 0>>}, {"u1"})
    \/ SealBidLate
    \/ TenderUpdate({u \in Updates :
                        u.updateContent = <<"x">> /\ u.updatedBy = <<"a">>})
    \/ GetAuditLog

Spec == Init /\ [][Next]_vars

\* concurrent seals over every input and every draw of iv and bidder id
InitSeal == Start(SealRuns, 0, 0, SealRuns)

NextSeal ==
    \/ SealBid(Files, TenderIds, IVs, Uuids)
    \/ SealBidLate

SpecSeal == InitSeal /\ [][NextSeal]_vars

\* seals and audit-log reads under a moving clock; a seal cancelled after
\* its insert is, to a reader, a seal that has not answered yet
InitAudit == Start(AuditSeals, 0, AuditReads, AuditSeals + AuditReads)

NextAudit ==
    \/ Tick
    \/ SealBid({<<1>>}, {<<"T">>}, {<<0, 0>>}, Uuids)
    \/ GetAuditLog

SpecAudit == InitAudit /\ [][NextAudit]_vars

\* governance updates under a moving clock
InitUpdate == Start(0, UpdateRuns, 0, UpdateRuns)

NextUpdate ==
    \/ Tick
    \/ TenderUpdate(Updates)

SpecUpdate == InitUpdate /\ [][NextUpdate]_vars

\* two audit-log reads over the same ledger
InitRead == Start(ReadSeals, 0, ReadReads, ReadSeals + ReadReads)

SpecRead == InitRead /\ [][NextAudit]_vars

(***************************************************************************)
(* Properties                                                              *)
(***************************************************************************)
Min(a, b) == IF a <= b THEN a ELSE b

\* base64.b64decode, the inverse of b64encode on its range
RECURSIVE b64decode(_)
b64decode(s) ==
    IF s = <<>> THEN <<>>
    ELSE IF Len(s) >= 2 /\ s[2] = B64Pad THEN <<s[1] \div 4>>
    ELSE <<s[1] \div 4, s[1] % 4>> \o b64decode(SubSeq(s, 2, Len(s)))

\* the instant an isoformat string denotes
ParseIso(s) ==
    [sec  |-> 10 * (s[1] - 48) + (s[2] - 48),
     frac |-> IF s[3] = 46 THEN s[4] - 48 ELSE 0]

Instant(s) == 2 * ParseIso(s).sec + ParseIso(s).frac

SealedFields ==
    {"_id", "tenderId", "bidHash", "timestamp", "bidderId", "status",
     "encryptedFileBase64", "iv"}

\* the execution contexts about to answer an audit-log request, and the
\* list each one answers with
Reading == {p \in Procs : pc[p] = "audit_return"}

AuditResponse(p) == GetAuditLogResponse(local[p].bids)

\* C1: bids is append-only: no step of seal_bid, tender_update or
\* get_audit_log removes a record or changes a field of a record already
\* stored, and the number of records never decreases.
C1_AppendOnly ==
    [][/\ Len(bids') >= Len(bids)
       /\ \A i \in 1 .. Len(bids) : bids'[i] = bids[i]]_vars

C1_Witness ==
    /\ Len(bids) >= 2
    /\ \E p \in Reading : local[p].snap >= 1

\* C2: every entry get_audit_log returns has exactly the fields tenderId,
\* bidHash, timestamp, bidderId and status; the encrypted payload and the
\* iv of the stored records are never among them.
C2_AuditFields ==
    \A p \in Reading :
        /\ AuditResponse(p).status = 200
        /\ \A i \in 1 .. Len(AuditResponse(p).body) :
              /\ DOMAIN AuditResponse(p).body[i] =
                    {"tenderId", "bidHash", "timestamp", "bidderId", "status"}
              /\ "encryptedFileBase64" \notin DOMAIN AuditResponse(p).body[i]
              /\ "iv" \notin DOMAIN AuditResponse(p).body[i]

C2_Witness ==
    \E p \in Reading :
        /\ Len(AuditResponse(p).body) >= 2
        /\ \A i \in 1 .. local[p].snap :
              {"encryptedFileBase64", "iv"} \subseteq DOMAIN bids[i]

\* C3: the list get_audit_log returns is in non-increasing order of
\* creation time, whatever the order in which concurrent seals inserted
\* their records.
C3_Descending ==
    \A p \in Reading :
        \A i, j \in 1 .. Len(AuditResponse(p).body) :
            i < j => Instant(AuditResponse(p).body[i].timestamp)
                        >= Instant(AuditResponse(p).body[j].timestamp)

\* a record stamped later was inserted first, and the list holds both
C3_Witness ==
    \E p \in Reading :
        /\ local[p].snap >= 2
        /\ Instant(bids[1].timestamp) > Instant(bids[2].timestamp)
        /\ Len(AuditResponse(p).body) >= 2
        /\ AuditResponse(p).body[1].timestamp # AuditResponse(p).body[2].timestamp

\* what identifies a seal operation in a stored record and in an answer
RecordKey(r) == [tenderId |-> r.tenderId, bidHash |-> r.bidHash, bidderId |-> r.bidderId]

AnswerKey(h) ==
    [tenderId |-> h.tender_id, bidHash |-> h.body.bidHash, bidderId |-> h.body.bidderId]

StoredCopies(k) == Cardinality({i \in 1 .. Len(bids) : RecordKey(bids[i]) = k})

AnsweredCopies(k) ==
    BagCardinality([h \in {g \in BagToSet(history) : AnswerKey(g) = k} |-> history[h]])

\* every seal request accepted so far was answered with success
AllSealed ==
    /\ \A p \in Procs : pc[p] = "idle"
    /\ BagCardinality(history) = SealRuns - budget.seal

\* C4: when N concurrent seal_bid operations have all returned success,
\* bids holds exactly N records, one per operation, each with the tenderId,
\* bidHash and bidderId of its own operation.
C4_OneRecordPerSeal ==
    AllSealed =>
        /\ Len(bids) = BagCardinality(history)
        /\ \A k \in {RecordKey(bids[i]) : i \in 1 .. Len(bids)}
                    \cup {AnswerKey(h) : h \in BagToSet(history)} :
              StoredCopies(k) = AnsweredCopies(k)

C4_Witness ==
    /\ AllSealed
    /\ Len(bids) = SealRuns
    /\ bids[1].tenderId # bids[2].tenderId
    /\ bids[1].bidderId # bids[2].bidderId
    /\ bids[1].bidHash # bids[2].bidHash

\* C5: a seal_bid that fails or is cancelled before its insert is applied
\* (while reading the file, encrypting, hashing, or awaiting an insert the
\* store has not applied) leaves bids unchanged, and no record of bids is
\* ever partially written.
C5_NoPartialState ==
    [][/\ \A p \in Procs :
             (pc[p] \in {"seal_read", "seal_insert"} /\ pc'[p] = "idle")
                => bids' = bids
       /\ \A i \in 1 .. Len(bids') : DOMAIN bids'[i] = SealedFields]_vars

\* of two seals accepted, one was answered and the other left nothing
C5_Witness ==
    /\ \A p \in Procs : pc[p] = "idle"
    /\ budget.seal = MaxOps - 2
    /\ budget.total = MaxOps - 2
    /\ BagCardinality(history) = 1
    /\ Len(bids) = 1

\* C6: every record of bids has bidHash = SHA-3-512 of the ciphertext bytes
\* stored in that record, and the bidHash returned to the caller is the
\* stored one.
C6_FingerprintOfCiphertext ==
    /\ \A i \in 1 .. Len(bids) :
          bids[i].bidHash =
             [alg |-> "sha3_512", of |-> b64decode(bids[i].encryptedFileBase64)]
    /\ \A h \in BagToSet(history) :
          \E i \in 1 .. Len(bids) :
             /\ bids[i].bidderId = h.body.bidderId
             /\ bids[i].tenderId = h.tender_id
             /\ bids[i].timestamp = h.timestamp
             /\ bids[i].bidHash = h.body.bidHash
             /\ h.body.bidHash.of = b64decode(bids[i].encryptedFileBase64)
             /\ h.body.bidHash.of # h.file

C6_Witness ==
    /\ Len(bids) = SealRuns
    /\ BagCardinality(history) = SealRuns
    /\ bids[1].encryptedFileBase64 # bids[2].encryptedFileBase64

\* the string the contract hashes: tenderId ":" updateContent ":" updatedBy
Joined(t, c, u) == t \o <<":">> \o c \o <<":">> \o u

\* C7: every tender_update stores and returns
\* updateHash = SHA-256(tenderId ":" updateContent ":" updatedBy), so two
\* calls with the same three fields have the same updateHash, whatever the
\* timestamp, the ledger and the operations in between.
C7_UpdateHashDeterministic ==
    /\ \A i \in 1 .. Len(tender_updates) :
          tender_updates[i].updateHash =
             [alg |-> "sha256",
              of |-> Joined(tender_updates[i].tenderId,
                            tender_updates[i].updateContent,
                            tender_updates[i].updatedBy)]
    /\ \A i, j \in 1 .. Len(tender_updates) :
          (/\ tender_updates[i].tenderId = tender_updates[j].tenderId
           /\ tender_updates[i].updateContent = tender_updates[j].updateContent
           /\ tender_updates[i].updatedBy = tender_updates[j].updatedBy)
             => tender_updates[i].updateHash = tender_updates[j].updateHash
    /\ \A p \in Procs :
          pc[p] \in {"update_insert", "update_return"} =>
             /\ TenderUpdateResponse(local[p].tender_update_doc).updateHash =
                   [alg |-> "sha256",
                    of |-> Joined(local[p].update.tenderId,
                                  local[p].update.updateContent,
                                  local[p].update.updatedBy)]
             /\ local[p].tender_update_doc.tenderId = local[p].update.tenderId
             /\ local[p].tender_update_doc.updateContent = local[p].update.updateContent
             /\ local[p].tender_update_doc.updatedBy = local[p].update.updatedBy

\* the same update recorded twice at different times, a seal in between
C7_Witness ==
    /\ Len(tender_updates) = 2
    /\ tender_updates[1].tenderId = tender_updates[2].tenderId
    /\ tender_updates[1].timestamp # tender_updates[2].timestamp
    /\ Len(bids) = 1

\* C8 as stated: any two seals of the same plaintext have different
\* fingerprints (no two seals ever draw the same iv).
C8_SamePlaintextDiffers ==
    /\ \A h \in BagToSet(history) : CopiesIn(h, history) = 1
    /\ \A h1, h2 \in BagToSet(history) :
          (h1 # h2 /\ h1.file = h2.file) => h1.body.bidHash # h2.body.bidHash

\* C8, amended: two seals of the same plaintext whose ivs differ have
\* different fingerprints; the iv is drawn at random with no check against
\* earlier draws, so two seals that draw the same iv for the same plaintext
\* have the same fingerprint.
C8_DistinctIvDiffers ==
    \A h1, h2 \in BagToSet(history) :
        /\ (h1.file = h2.file /\ b64decode(h1.iv) # b64decode(h2.iv))
              => h1.body.bidHash # h2.body.bidHash
        /\ (h1.file = h2.file /\ b64decode(h1.iv) = b64decode(h2.iv))
              => h1.body.bidHash = h2.body.bidHash

C8_Witness ==
    \E h1, h2 \in BagToSet(history) :
        /\ h1.file = h2.file
        /\ h1.iv # h2.iv
        /\ h1.body.bidHash # h2.body.bidHash

\* C9 as stated: two get_audit_log calls with no append completed between
\* them (their queries saw the same number of records) return the same
\* sequence of entries, and neither changes bids or tender_updates.
C9_Idempotent ==
    \A p, q \in Reading :
        local[p].snap = local[q].snap =>
            AuditResponse(p).body = AuditResponse(q).body

\* the records of the snapshot that a list returns, as positions
Picks(p) ==
    {o \in [1 .. Len(AuditResponse(p).body) -> 1 .. local[p].snap] :
        /\ \A i, j \in DOMAIN o : i # j => o[i] # o[j]
        /\ \A i \in DOMAIN o :
              AuditResponse(p).body[i] = Project(bids[o[i]], AuditProjection)}

\* the list holds min(limit, n) records of the n-record snapshot, and no
\* record left out is newer than a record returned
GreatestReturned(p) ==
    /\ Len(AuditResponse(p).body) = Min(AuditLimit, local[p].snap)
    /\ \E o \in Picks(p) :
          \A j \in 1 .. local[p].snap :
              (\A i \in DOMAIN o : o[i] # j) =>
                  \A i \in DOMAIN o :
                      Instant(bids[j].timestamp) <= Instant(bids[o[i]].timestamp)

Listed(p, h) ==
    \E i \in 1 .. Len(AuditResponse(p).body) :
        /\ AuditResponse(p).body[i].bidHash = h.body.bidHash
        /\ AuditResponse(p).body[i].bidderId = h.body.bidderId

Later(p, h) ==
    {i \in 1 .. local[p].snap : Instant(bids[i].timestamp) > Instant(h.timestamp)}

NotEarlier(p, h) ==
    {i \in 1 .. local[p].snap : Instant(bids[i].timestamp) >= Instant(h.timestamp)}

Triple(d) == <<d.tenderId, d.updateContent, d.updatedBy>>

\* C11 as stated: two tender_update calls whose (tenderId, updateContent,
\* updatedBy) differ in at least one field hash different strings and so
\* have different updateHash values, also when a field contains ":".
C11_FieldsBindHash ==
    \A i, j \in 1 .. Len(tender_updates) :
        Triple(tender_updates[i]) # Triple(tender_updates[j]) =>
            /\ tender_updates[i].updateHash.of # tender_updates[j].updateHash.of
            /\ tender_updates[i].updateHash # tender_updates[j].updateHash

====
